---- MODULE Spec2Model ----
(***************************************************************************)
(* Extraction orchestration of google-maps-actor.                          *)
(*                                                                         *)
(* The repository holds several variants of the same actor.  Two of them   *)
(* are modelled as one run each:                                           *)
(*   "browser"  src/main.js 552-823: one tab, references extracted one     *)
(*              after the other, onPlaceReady with the quality monitor;    *)
(*   "http"     src/run.sh 293-422: tasks dispatched by runWithConcurrency.*)
(* The load-more loop of link discovery (three variants) is modelled on    *)
(* its own under SpecScroll.                                               *)
(*                                                                         *)
(* Identifiers (place_id, cid, URLs) are positive integers; 0 stands for   *)
(* a null / empty (falsy) value.  Quality fields are modelled by whether   *)
(* they are filled.                                                        *)
(***************************************************************************)
EXTENDS Integers, Sequences, FiniteSets, TLC

\* ------------------------------------------------------------------ bounds
\* longest list of search terms
MaxTerms == 2
\* number of links on the longest result page
MaxLinks == 21
\* number of links on the result pages of the http variant
HttpLinks == 3
\* largest concurrency limit of the run input
MaxConcurrency == 3
\* largest item count / scroll height of the result feed in SpecScroll
MaxFeed == 3

\* ------------------------------------------------- program constants
QUALITY_CHECK_EVERY == 10
QUALITY_WINDOW_SIZE == 20
\* thresholds in percent (QUALITY_THRESHOLDS holds them as fractions)
THRESHOLD_phone == 95
THRESHOLD_rating == 95
THRESHOLD_reviews_count == 85
THRESHOLD_full_address == 95
\* hasContactProblem = contatoPct < 95
CONTACT_FLOOR == 95
\* `(mínimo: 90%)` in the report line of the contact composite
CONTACT_REPORTED_MIN == 90
\* stalledCount >= 3
STALL_LIMIT == 3
\* for (let i = 0; i < 10; i++)
HYBRID_SCROLL_ROUNDS == 10
\* maxScrollAttempts = 50
LEGACY_SCROLL_ATTEMPTS == 50

\* ------------------------------------------------------------ helpers
Min(a, b) == IF a < b THEN a ELSE b
Max(a, b) == IF a > b THEN a ELSE b

Range(s) == {s[k] : k \in DOMAIN s}

\* ToLength of the `length` property given to Array.from: negative -> 0
ToLength(n) == IF n < 0 THEN 0 ELSE n

\* Array.prototype.slice(0, end) on a sequence: a negative end counts from
\* the end of the array
SliceTo(s, end) ==
    LET e == IF end < 0 THEN Max(Len(s) + end, 0) ELSE Min(end, Len(s))
    IN  SubSeq(s, 1, e)

\* Math.round(x / y * 100) for x >= 0, y > 0 (round half up)
RoundPct(x, y) == (200 * x + y) \div (2 * y)

\* ------------------------------------------------------------ records
\* name values: "" (null or empty), "Google Maps" (the generic page title),
\* "Place" (a real name)
Names == {"", "Google Maps", "Place"}

\* ---------------------------------------------------------- identity
\* the precedence of the first two identifiers swapped
DedupeKeyCidFirst(p) ==
    IF p.cid # 0 THEN p.cid
    ELSE IF p.place_id # 0 THEN p.place_id
    ELSE p.google_maps_url

\* const dedupeKey = placeData.place_id || placeData.cid || placeData.google_maps_url
DedupeKey(p) ==
    IF p.place_id # 0 THEN p.place_id
    ELSE IF p.cid # 0 THEN p.cid
    ELSE p.google_maps_url

\* ------------------------------------------------------- environment
(* What the pages show is fixed by `world`, chosen in Init:                *)
(*   defect/period/offset/from                                             *)
(*                         the place page of URL u is defective in the way *)
(*                         `defect` names iff u % period = offset and      *)
(*                         u > from;                                       *)
(*   keyMode               which identifiers the place pages carry;        *)
(*   pageSize, termShift   the result page of term t lists the URLs        *)
(*                         (t-1)*termShift + 1 .. (t-1)*termShift+pageSize;*)
(*   emptyTerm             the term whose result page shows no place link. *)
DefectKinds ==
    {"throw", "pushFail", "noName", "gmName", "noWebsite", "noContact",
     "whatsappOnly", "ratingNoCount", "noRating", "noCount", "noAddress"}

\* <<period, offset, from>>
DefectSlots ==
    {<<1, 0, 0>>, <<2, 1, 0>>, <<5, 0, 0>>, <<10, 0, 0>>, <<20, 0, 0>>, <<5, 0, 10>>}

KeyModes == {"url", "pid", "mixed"}

Hit(w, u) == w.defect # "none" /\ u % w.period = w.offset /\ u > w.from

HitKind(w, u, kind) == w.defect = kind /\ Hit(w, u)

\* identifiers shown by the place page of URL u
PlaceIdAt(w, u) ==
    CASE w.keyMode = "pid"   -> 2 * ((u + 1) \div 2)
      [] w.keyMode = "mixed" -> IF u % 3 = 1 THEN u + 2 ELSE 0
      [] OTHER               -> 0

CidAt(w, u) ==
    CASE w.keyMode = "mixed" -> IF u % 3 = 1 THEN u ELSE IF u % 3 = 2 THEN u + 1 ELSE 0
      [] OTHER               -> 0

\* the field map extractPlace / parsePlaceFromHtml returns for URL u
PlaceAt(w, u) ==
    [ name          |-> IF HitKind(w, u, "noName") THEN ""
                        ELSE IF HitKind(w, u, "gmName") THEN "Google Maps"
                        ELSE "Place",
      place_id      |-> PlaceIdAt(w, u),
      cid           |-> CidAt(w, u),
      google_maps_url |-> u,
      website       |-> ~HitKind(w, u, "noWebsite"),
      phone         |-> ~(HitKind(w, u, "noContact") \/ HitKind(w, u, "whatsappOnly")),
      whatsapp      |-> HitKind(w, u, "whatsappOnly"),
      rating        |-> ~HitKind(w, u, "noRating"),
      reviews_count |-> ~(HitKind(w, u, "ratingNoCount") \/ HitKind(w, u, "noCount")),
      full_address  |-> ~HitKind(w, u, "noAddress") ]

\* hrefs of the place anchors of term t's result page, in document order;
\* the first listing appears twice (its thumbnail and its title link)
PageOf(w, t) ==
    IF t = w.emptyTerm THEN <<>>
    ELSE LET base == (t - 1) * w.termShift
         IN  <<base + 1>> \o [k \in 1..w.pageSize |-> base + k]

\* --------------------------------------------------- link collection
\* browser variant: searchPage.evaluate((max) => { ... }, maxPlaces)
RECURSIVE CollectFrom(_, _, _, _)
CollectFrom(page, k, result, max) ==
    IF k > Len(page) THEN result
    ELSE IF page[k] # 0 /\ page[k] \notin Range(result)
         THEN LET r == Append(result, page[k])
              IN  IF Len(r) >= max THEN r ELSE CollectFrom(page, k + 1, r, max)
         ELSE CollectFrom(page, k + 1, result, max)

CollectLinks(page, max) == CollectFrom(page, 1, <<>>, max)

\* legacy variant: for (i < Math.min(elements.length, maxPlaces)) push if new
RECURSIVE LegacyFrom(_, _, _, _)
LegacyFrom(page, k, result, max) ==
    IF k > Min(Len(page), max) THEN result
    ELSE IF page[k] # 0 /\ page[k] \notin Range(result)
         THEN LegacyFrom(page, k + 1, Append(result, page[k]), max)
         ELSE LegacyFrom(page, k + 1, result, max)

LegacyCollectLinks(page, max) == LegacyFrom(page, 1, <<>>, max)

\* http variant: a Set filled by the regex loops, then [...links].slice(0, max)
\* One regex loop: the match is taken first, the size test comes second.
RECURSIVE AddMatches(_, _, _, _)
AddMatches(matches, k, set, max) ==
    IF k > Len(matches) \/ ~(Len(set) < max * 3) THEN set
    ELSE AddMatches(matches, k + 1,
                    IF matches[k] \in Range(set) THEN set ELSE Append(set, matches[k]),
                    max)

\* html = [abs |-> absolute hrefs, rel |-> relative hrefs,
\*         pids |-> the distinct place ids extractPlaceIdsFromSearchHtml finds]
ExtractPlaceLinksFromHtml(html, max) ==
    LET m1 == AddMatches(html.abs, 1, <<>>, max)
        m2 == AddMatches(html.rel, 1, m1, max)
        m3 == IF Len(m2) = 0 THEN SliceTo(html.pids, max * 3) ELSE m2
    IN  SliceTo(m3, max)

\* -------------------------------------------------------------- state
VARIABLES
    variant,        \* "browser" or "http": which program runs
    input,          \* the run input (Actor.getInput)
    world,          \* what the pages show (see above)
    pc,             \* where the main program is
    termIdx,        \* 1-based position in searchTerms of the current job
    seenPlaceIds,   \* the identity set
    dataset,        \* default dataset: records pushed by Actor.pushData(result)
    allResults,
    retryDataset,   \* batches pushed with datasetName 'retry_queue'
    links,          \* references of the current job
    saved, qualityWindow, retryQueue,
    i,              \* loop index of the extraction loop (0-based)
    aborted,
    result,         \* the record being pushed by onPlaceReady
    index, results, \* runWithConcurrency: shared cursor, result array
    workers,        \* runWithConcurrency: one entry per worker
    markedBy,       \* history: for each seen key, the <<term, url>> that marked it
    started,        \* history: how often each reference of the job was started
    abortedAt,      \* history: loop index whose checkpoint returned 'ABORT', or -1
    events,         \* history: the checkpoints evaluated and the flushes issued
    scroll          \* the load-more loop (SpecScroll)

runVars ==
    <<variant, input, world, pc, termIdx, seenPlaceIds, dataset, allResults,
      retryDataset, links, saved, qualityWindow, retryQueue, i, aborted, result,
      index, results, workers, markedBy, started, abortedAt, events>>

vars == <<runVars, scroll>>

Null == [null |-> TRUE]

\* -------------------------------------------------------------- gates
\* browser: if (!placeData.name || placeData.name === 'Google Maps') return
ValidName(p) == p.name # "" /\ p.name # "Google Maps"

\* http: if (!placeData.name) return null
HttpValidName(p) == p.name # ""

\* the membership test is skipped
IsDuplicateSkipped(seen, key) == FALSE

\* seenPlaceIds.has(dedupeKey)
IsDuplicate(seen, key) == key \in seen

\* the key is never recorded
MarkSeenDropped(seen, key) == seen

\* seenPlaceIds.add(dedupeKey)
MarkSeen(seen, key) == seen \cup {key}

\* if (onlyWithWebsite && !placeData.website) return
FilteredOut(p) == input.onlyWithWebsite /\ ~p.website

\* { search_term: searchTerm, location, ...placeData, ...userData, scraped_at }
MakeResult(p, term) == [search_term |-> term] @@ p

\* history: the first reference that marks a key owns it
MarkOwner(owner, key, ref) ==
    IF key \in DOMAIN owner THEN owner ELSE owner @@ (key :> ref)

\* ---------------------------------------------------- quality monitor
\* r[field] != null && r[field] !== ''
FilledCount(window, field) ==
    Cardinality({k \in DOMAIN window : window[k][field]})

QualityFields ==
    << [field |-> "phone",         threshold |-> THRESHOLD_phone],
       [field |-> "rating",        threshold |-> THRESHOLD_rating],
       [field |-> "reviews_count", threshold |-> THRESHOLD_reviews_count],
       [field |-> "full_address",  threshold |-> THRESHOLD_full_address] >>

\* pct < threshold, with pct = filled / window.length
BelowThreshold(window, q) ==
    FilledCount(window, q.field) * 100 < q.threshold * Len(window)

\* checkQuality(window): the entries of QUALITY_THRESHOLDS below threshold
CheckQuality(window) ==
    IF Len(window) = 0 THEN <<>>
    ELSE LET fails(q) == [ field     |-> q.field,
                           pct       |-> RoundPct(FilledCount(window, q.field), Len(window)),
                           threshold |-> q.threshold ]
         IN  SelectSeq([k \in 1..Len(QualityFields) |-> fails(QualityFields[k])],
                       LAMBDA f : \E k \in 1..Len(QualityFields) :
                                     /\ QualityFields[k].field = f.field
                                     /\ BelowThreshold(window, QualityFields[k]))

\* const semContato = !result.phone && !result.whatsapp
SemContato(r) == ~r.phone /\ ~r.whatsapp

\* const ratingSemCount = result.rating != null && result.reviews_count == null
RatingSemCount(r) == r.rating /\ ~r.reviews_count

CriticalIssues(r) ==
    (IF SemContato(r) THEN <<"sem_contato">> ELSE <<>>)
    \o (IF RatingSemCount(r) THEN <<"rating_sem_count">> ELSE <<>>)

\* phone is not left out of the fields looked at
WarningIssuesWithPhone(r) ==
    SelectSeq([k \in 1..Len(QualityFields) |-> QualityFields[k].field], LAMBDA f : ~r[f])

\* Object.keys(QUALITY_THRESHOLDS).filter(f => f != 'phone' && missing(result[f]))
WarningIssues(r) ==
    LET fields == SelectSeq([k \in 1..Len(QualityFields) |-> QualityFields[k].field],
                            LAMBDA f : f # "phone")
    IN  SelectSeq(fields, LAMBDA f : ~r[f])

\* the window is never trimmed
ObserveUnbounded(window, r) == Append(window, r)

\* qualityWindow.push(result); if (length > QUALITY_WINDOW_SIZE) shift()
Observe(window, r) ==
    LET w == Append(window, r)
    IN  IF Len(w) > QUALITY_WINDOW_SIZE THEN Tail(w) ELSE w

\* every accepted record is queued, flagged or not
RecordAlways(queue, r) ==
    Append(queue, [ record           |-> r,
                    _critical_issues |-> CriticalIssues(r),
                    _warning_issues  |-> WarningIssues(r) ])

\* retryQueue.push({...result, _critical_issues, _warning_issues}) when flagged
RecordIssue(queue, r) ==
    IF Len(CriticalIssues(r)) > 0 \/ Len(WarningIssues(r)) > 0
    THEN Append(queue, [ record           |-> r,
                         _critical_issues |-> CriticalIssues(r),
                         _warning_issues  |-> WarningIssues(r) ])
    ELSE queue

\* saved % QUALITY_CHECK_EVERY === 0 && qualityWindow.length >= QUALITY_CHECK_EVERY
CheckpointDue(n, window) ==
    n % QUALITY_CHECK_EVERY = 0 /\ Len(window) >= QUALITY_CHECK_EVERY

\* qualityWindow.filter(r => !r.phone && !r.whatsapp).length
SemContatoCount(window) ==
    Cardinality({k \in DOMAIN window : SemContato(window[k])})

\* 100 - Math.round(semContatoCount / qualityWindow.length * 100)
ContatoPct(window) == 100 - RoundPct(SemContatoCount(window), Len(window))

\* a window exactly at the floor counts as a breach
HasContactProblemAtFloor(window) == ContatoPct(window) <= CONTACT_FLOOR

\* const hasContactProblem = contatoPct < 95
HasContactProblem(window) == ContatoPct(window) < CONTACT_FLOOR

\* hasContactProblem || failing.some(f => f.field === 'rating')
ShouldAbort(window) ==
    \/ HasContactProblem(window)
    \/ \E k \in DOMAIN CheckQuality(window) : CheckQuality(window)[k].field = "rating"

\* the branches of the checkpoint: lines 765-794
Decision(window) ==
    IF HasContactProblem(window) \/ Len(CheckQuality(window)) > 0
    THEN IF ShouldAbort(window) THEN "abort" ELSE "warn"
    ELSE "ok"

\* the lines the checkpoint logs about the window: one for the contact
\* composite if it is in breach, then one for each entry of `failing`
Report(window) ==
    IF ~(HasContactProblem(window) \/ Len(CheckQuality(window)) > 0) THEN <<>>
    ELSE (IF HasContactProblem(window)
          THEN << [field |-> "contato", pct |-> ContatoPct(window),
                   minimum |-> CONTACT_REPORTED_MIN] >>
          ELSE <<>>)
         \o [k \in DOMAIN CheckQuality(window) |->
                [field   |-> CheckQuality(window)[k].field,
                 pct     |-> CheckQuality(window)[k].pct,
                 minimum |-> CheckQuality(window)[k].threshold]]

\* the flush is never issued
FlushNever(queue) == FALSE

\* if (retryQueue.length > 0) await Actor.pushData(...)
FlushNeeded(queue) == Len(queue) > 0

\* history: one entry per checkpoint evaluated and per flush issued
Event(kind, term, n, size, decision) ==
    [kind |-> kind, term |-> term, saved |-> n, size |-> size, decision |-> decision]

\* --------------------------------------------------------------- Init
MaxPlacesValues == {0, 2, MaxLinks}

NoDefect == [defect |-> "none", period |-> 1, offset |-> 0, from |-> 0]

\* defects a page of `size` links can show
Defects(kinds, size) ==
    {NoDefect} \cup
    { [defect |-> d, period |-> s[1], offset |-> s[2], from |-> s[3]] :
        d \in kinds, s \in {t \in DefectSlots : t[1] <= size /\ t[3] < size} }

MakeWorld(d, km, shift, size, empty) ==
    [ defect |-> d.defect, period |-> d.period, offset |-> d.offset, from |-> d.from,
      keyMode |-> km, termShift |-> shift, pageSize |-> size, emptyTerm |-> empty ]

MakeInput(n, loc, max, oww, c) ==
    [ nTerms |-> n, hasLocation |-> loc, maxPlaces |-> max,
      onlyWithWebsite |-> oww, concurrency |-> c ]

\* kinds of defect the http variant can tell apart (it has no quality monitor)
HttpDefectKinds == {"throw", "pushFail", "noName", "noWebsite"}

\* run inputs that fail validation; the pages are never looked at
InvalidConfigs ==
    { cfg \in { [variant |-> v,
                 input   |-> MakeInput(n, loc, MaxLinks, FALSE, MaxConcurrency),
                 world   |-> MakeWorld(NoDefect, "url", 0, 1, 0)] :
                  v \in {"browser", "http"}, n \in 0..MaxTerms, loc \in BOOLEAN } :
        cfg.input.nTerms = 0 \/ ~cfg.input.hasLocation }

\* browser variant on short result pages
ShortConfigs ==
    { [variant |-> "browser",
       input   |-> MakeInput(n, TRUE, max, oww, MaxConcurrency),
       world   |-> MakeWorld(d, km, shift, size, empty)] :
        n \in 1..MaxTerms, max \in MaxPlacesValues, oww \in BOOLEAN,
        d \in Defects(DefectKinds, HttpLinks), km \in KeyModes,
        shift \in {0, 1}, size \in {1, HttpLinks}, empty \in 0..1 }

\* browser variant on the long result page: the quality monitor's cases
LongConfigs ==
    { [variant |-> "browser",
       input   |-> MakeInput(n, TRUE, MaxLinks, oww, MaxConcurrency),
       world   |-> MakeWorld(d, km, shift, MaxLinks, 0)] :
        n \in 1..MaxTerms, oww \in BOOLEAN,
        d \in Defects(DefectKinds, MaxLinks), km \in KeyModes,
        shift \in {0, MaxLinks} }

\* http variant: every concurrency limit, short result pages
HttpConfigs ==
    { [variant |-> "http",
       input   |-> MakeInput(n, TRUE, max, oww, c),
       world   |-> MakeWorld(d, km, shift, HttpLinks, empty)] :
        n \in 1..MaxTerms, max \in MaxPlacesValues, oww \in BOOLEAN,
        c \in 0..MaxConcurrency,
        d \in Defects(HttpDefectKinds, HttpLinks), km \in KeyModes,
        shift \in {0, 1}, empty \in 0..1 }

\* browser variant, one term, on result pages of five and of twenty places,
\* the limit equal to the page, under every concurrency setting
ScenarioConfigs ==
    { [variant |-> "browser",
       input   |-> MakeInput(1, TRUE, size, FALSE, c),
       world   |-> MakeWorld(d, km, 0, size, 0)] :
        size \in {5, 20}, c \in 0..MaxConcurrency,
        d \in Defects({"throw", "noContact"}, 5), km \in {"url", "pid"} }

\* http variant on pages whose <title> is the generic one, "Google Maps"
HttpTitleConfigs ==
    { [variant |-> "http",
       input   |-> MakeInput(1, TRUE, MaxLinks, FALSE, c),
       world   |-> MakeWorld(d, "url", 0, HttpLinks, 0)] :
        c \in {1, MaxConcurrency}, d \in Defects({"gmName"}, HttpLinks) }

\* the filter flag is explored where some place lacks a website
Relevant(cfg) == cfg.input.onlyWithWebsite => cfg.world.defect = "noWebsite"

Configs ==
    InvalidConfigs \cup
    {cfg \in ShortConfigs \cup LongConfigs \cup ScenarioConfigs \cup HttpConfigs
                 \cup HttpTitleConfigs :
        Relevant(cfg)}

\* let prev = 0; let stalledCount = 0;
ScrollIdle ==
    [ pc |-> "idle", variant |-> "monitor", maxPlaces |-> 0, prev |-> 0,
      stalledCount |-> 0, rounds |-> 0, exit |-> "none", links |-> <<>> ]

\* `const seenPlaceIds = new Set()` sits before the loop over the terms
InitialSeen == {}

\* the state after construction, for a run drawn from cfgs
InitWith(cfgs) ==
    /\ \E cfg \in cfgs :
          /\ variant = cfg.variant
          /\ input = cfg.input
          /\ world = cfg.world
    /\ pc = "validate"
    /\ termIdx = 1
    /\ seenPlaceIds = InitialSeen
    /\ dataset = <<>>
    /\ allResults = <<>>
    /\ retryDataset = <<>>
    /\ links = <<>>
    /\ saved = 0
    /\ qualityWindow = <<>>
    /\ retryQueue = <<>>
    /\ i = 0
    /\ aborted = FALSE
    /\ result = Null
    /\ index = 0
    /\ results = <<>>
    /\ workers = <<>>
    /\ markedBy = <<>>
    /\ started = <<>>
    /\ abortedAt = -1
    /\ events = <<>>
    /\ scroll = ScrollIdle

Init == InitWith(Configs)

cfgVars == <<variant, input, world>>
outVars == <<seenPlaceIds, dataset, allResults, retryDataset, markedBy>>
monitorVars == <<saved, qualityWindow, retryQueue>>
loopVars == <<i, aborted, result, abortedAt>>
schedVars == <<index, results, workers>>

\* ----------------------------------------------------------- main loop
\* the location is not looked at
InputValidTermsOnly(inp) == inp.nTerms # 0

\* if (!input?.searchTerms?.length) throw ...; if (!input.location) throw ...
InputValid(inp) == inp.nTerms # 0 /\ inp.hasLocation

Validate ==
    /\ pc = "validate"
    /\ pc' = IF InputValid(input) THEN "nextTerm" ELSE "fatal"
    /\ UNCHANGED <<cfgVars, termIdx, outVars, links, monitorVars, loopVars,
                   schedVars, started, scroll, events>>

\* the set declared inside the loop over the terms
JobSeenFresh(seen) == {}

\* the identity set a job starts with: the run's set, declared before the loop
JobSeen(seen) == seen

\* the references of every job are handed to runWithConcurrency
JobEntryPooled(v) == "search"

\* how a job processes its references: scrapeWithBrowser with its
\* `for ... await extractPlace ... await onPlaceReady` loop, or the fetch of
\* the result page followed by runWithConcurrency(tasks, concurrency)
JobEntry(v) == IF v = "browser" THEN "discover" ELSE "search"

\* for (const searchTerm of searchTerms) { let saved = 0; qualityWindow = []; ... }
NextTerm ==
    /\ pc = "nextTerm"
    /\ IF termIdx > input.nTerms
       THEN /\ pc' = "done"
            /\ UNCHANGED <<seenPlaceIds, monitorVars>>
       ELSE /\ pc' = JobEntry(variant)
            /\ seenPlaceIds' = JobSeen(seenPlaceIds)
            /\ saved' = 0
            /\ qualityWindow' = <<>>
            /\ retryQueue' = <<>>
    /\ UNCHANGED <<cfgVars, termIdx, dataset, allResults, retryDataset, markedBy,
                   links, loopVars, schedVars, started, scroll, events>>

\* ----------------------------------------------- the load-more loop
\* a changed height does not reset the stall counter
MonitorTurnNoReset(sc, count, endOfList, newH) ==
    IF count >= sc.maxPlaces \/ endOfList
    THEN [sc EXCEPT !.pc = "collect",
                    !.exit = IF count >= sc.maxPlaces THEN "count" ELSE "end"]
    ELSE IF newH = sc.prev
         THEN IF sc.stalledCount + 1 >= STALL_LIMIT
              THEN [sc EXCEPT !.pc = "collect", !.exit = "stall",
                              !.stalledCount = @ + 1]
              ELSE [sc EXCEPT !.stalledCount = @ + 1, !.prev = newH]
         ELSE [sc EXCEPT !.prev = newH]

\* one turn of `while (true)`: count/endOfList are read, the feed is scrolled,
\* the new scroll height is read
MonitorTurn(sc, count, endOfList, newH) ==
    IF count >= sc.maxPlaces \/ endOfList
    THEN [sc EXCEPT !.pc = "collect",
                    !.exit = IF count >= sc.maxPlaces THEN "count" ELSE "end"]
    ELSE IF newH = sc.prev
         THEN IF sc.stalledCount + 1 >= STALL_LIMIT
              THEN [sc EXCEPT !.pc = "collect", !.exit = "stall",
                              !.stalledCount = @ + 1]
              ELSE [sc EXCEPT !.stalledCount = @ + 1, !.prev = newH]
         ELSE [sc EXCEPT !.stalledCount = 0, !.prev = newH]

\* one turn of `for (let i = 0; i < 10; i++)`
HybridTurn(sc, count, newH) ==
    IF ~(sc.rounds < HYBRID_SCROLL_ROUNDS)
    THEN [sc EXCEPT !.pc = "collect", !.exit = "ceiling"]
    ELSE IF count >= sc.maxPlaces THEN [sc EXCEPT !.pc = "collect", !.exit = "count"]
    ELSE IF newH = sc.prev THEN [sc EXCEPT !.pc = "collect", !.exit = "stall"]
    ELSE [sc EXCEPT !.prev = newH, !.rounds = @ + 1]

\* one turn of `while (scrollAttempts < maxScrollAttempts)` of scrollResults
LegacyTurn(sc, count, newH) ==
    IF ~(sc.rounds < LEGACY_SCROLL_ATTEMPTS)
    THEN [sc EXCEPT !.pc = "collect", !.exit = "ceiling"]
    ELSE IF count >= sc.maxPlaces THEN [sc EXCEPT !.pc = "collect", !.exit = "count"]
    ELSE IF newH = sc.prev THEN [sc EXCEPT !.pc = "collect", !.exit = "stall"]
    ELSE [sc EXCEPT !.prev = newH, !.rounds = @ + 1]

\* what the result feed shows at a turn of the loop during a run: some or all
\* of the anchors of the page, and one of two scroll heights
FeedCounts(page) == {1, Len(page)}

FeedHeights == {1, 2}

\* ----------------------------------------- browser variant: one job
\* the scroll loop inside scrapeWithBrowser, as the run sees it
LoopState(sc, max) == [sc EXCEPT !.maxPlaces = max]

\* a turn of the scroll loop that does not leave it
ScrollOn ==
    /\ pc = "discover"
    /\ Len(PageOf(world, termIdx)) > 0
    /\ \E count \in FeedCounts(PageOf(world, termIdx)), endOfList \in BOOLEAN,
          newH \in FeedHeights :
          LET t == MonitorTurn(LoopState(scroll, input.maxPlaces), count, endOfList, newH)
          IN  /\ t.pc = "idle"
              /\ scroll' = t
    /\ UNCHANGED runVars

\* scrapeWithBrowser up to the extraction loop: the turn of the scroll loop
\* that leaves it, then the link collection.  A result page without a place
\* link makes waitForSelector throw: the caller logs and continues.
Discover ==
    /\ pc = "discover"
    /\ LET page == PageOf(world, termIdx)
       IN  IF Len(page) = 0
           THEN /\ pc' = "nextTerm"
                /\ termIdx' = termIdx + 1
                /\ links' = <<>>
                /\ started' = <<>>
           ELSE /\ \E count \in FeedCounts(page), endOfList \in BOOLEAN,
                      newH \in FeedHeights :
                      MonitorTurn(LoopState(scroll, input.maxPlaces),
                                  count, endOfList, newH).pc = "collect"
                /\ links' = CollectLinks(page, input.maxPlaces)
                /\ started' = [k \in 1..Len(links') |-> 0]
                /\ pc' = "loop"
                /\ UNCHANGED termIdx
    /\ i' = 0
    /\ aborted' = FALSE
    /\ abortedAt' = -1
    /\ scroll' = ScrollIdle
    /\ UNCHANGED <<cfgVars, outVars, monitorVars, result, schedVars, events>>

\* the flag is never looked at
BreakNever(flag) == FALSE

\* if (aborted) break
BreakLoop(flag) == flag

\* for (let i = 0; i < total; i++) { if (aborted) break; ... extractPlace(...) }
\* Leaving the loop ends the job: the per-term summary is logged.
LoopHead ==
    /\ pc = "loop"
    /\ IF i < Len(links) /\ ~BreakLoop(aborted)
       THEN /\ pc' = "extracting"
            /\ started' = [started EXCEPT ![i + 1] = @ + 1]
            /\ UNCHANGED termIdx
       ELSE /\ pc' = "nextTerm"
            /\ termIdx' = termIdx + 1
            /\ UNCHANGED started
    /\ UNCHANGED <<cfgVars, outVars, links, monitorVars, loopVars, schedVars, scroll, events>>

\* the key is recorded behind the filter, for accepted records only
MarksKeyIfAccepted(gate) == gate = "accept"

\* seenPlaceIds.add(dedupeKey) sits between the duplicate test and the
\* onlyWithWebsite filter: it runs for every record that reaches the filter
MarksKey(gate) == gate \in {"filtered", "accept"}

\* the gates of onPlaceReady, in the order of the code
Gate(p, seen) ==
    IF ~ValidName(p) THEN "noName"
    ELSE IF IsDuplicate(seen, DedupeKey(p)) THEN "duplicate"
    ELSE IF FilteredOut(p) THEN "filtered"
    ELSE "accept"

\* the record is kept back for a batch written after the loop
PushBuffered(out, r) == out

\* await Actor.pushData(result): the record is in the main output when the
\* call settles
PushData(out, r) == Append(out, r)

\* extractPlace settles; on success onPlaceReady runs up to `await Actor.pushData`
ExtractDone ==
    /\ pc = "extracting"
    /\ LET u    == links[i + 1]
           p    == PlaceAt(world, u)
           gate == IF HitKind(world, u, "throw") THEN "throw" ELSE Gate(p, seenPlaceIds)
       IN  /\ IF MarksKey(gate)
              THEN /\ seenPlaceIds' = MarkSeen(seenPlaceIds, DedupeKey(p))
                   /\ markedBy' = MarkOwner(markedBy, DedupeKey(p), <<termIdx, u>>)
              ELSE UNCHANGED <<seenPlaceIds, markedBy>>
           /\ IF gate = "accept"
              THEN /\ result' = MakeResult(p, termIdx)
                   /\ pc' = "pushing"
                   /\ UNCHANGED i
              ELSE /\ i' = i + 1
                   /\ pc' = "loop"
                   /\ UNCHANGED result
    /\ UNCHANGED <<cfgVars, termIdx, dataset, allResults, retryDataset, links,
                   monitorVars, aborted, abortedAt, schedVars, started, scroll, events>>

\* the error of the push ends the extraction loop
PushErrorEndsLoop(idx, n) == n

\* the push throws out of onPlaceReady into the catch of the loop body, which
\* logs; the loop goes on with i++
AfterPushError(idx, n) == idx + 1

\* Actor.pushData(result) settles; the rest of onPlaceReady runs up to the
\* flush of the retry queue (or to its return)
PushDone ==
    /\ pc = "pushing"
    /\ IF HitKind(world, result.google_maps_url, "pushFail")
       THEN /\ i' = AfterPushError(i, Len(links))
            /\ pc' = "loop"
            /\ result' = Null
            /\ UNCHANGED <<dataset, allResults, monitorVars, aborted, abortedAt, events>>
       ELSE LET w     == Observe(qualityWindow, result)
                n     == saved + 1
                q     == RecordIssue(retryQueue, result)
                due   == CheckpointDue(n, w)
                abort == due /\ Decision(w) = "abort"
                flush == abort /\ FlushNeeded(q)
            IN  /\ dataset' = PushData(dataset, result)
                /\ allResults' = Append(allResults, result)
                /\ qualityWindow' = w
                /\ saved' = n
                /\ retryQueue' = q
                /\ events' = events
                      \o (IF due THEN <<Event("checkpoint", termIdx, n, Len(w), Decision(w))
                                        @@ [report |-> Report(w)]>>
                          ELSE <<>>)
                      \o (IF flush THEN <<Event("flush", termIdx, n, Len(q), "none")>>
                          ELSE <<>>)
                /\ IF flush
                   THEN /\ pc' = "flushing"
                        /\ UNCHANGED <<i, aborted, abortedAt, result>>
                   ELSE /\ aborted' = (aborted \/ abort)
                        /\ abortedAt' = IF abort THEN i ELSE abortedAt
                        /\ i' = i + 1
                        /\ pc' = "loop"
                        /\ result' = Null
    /\ UNCHANGED <<cfgVars, termIdx, seenPlaceIds, retryDataset, markedBy, links,
                   schedVars, started, scroll>>

\* retryQueue.map(r => ({ ...r, _dataset: 'retry_queue' }))
RetryBatch(queue) == queue

\* await Actor.pushData(batch, {datasetName: 'retry_queue'}).catch(() => {});
\* return 'ABORT'  -> the loop sets aborted = true
FlushDone ==
    /\ pc = "flushing"
    /\ \E ok \in BOOLEAN :
          retryDataset' = IF ok THEN Append(retryDataset, RetryBatch(retryQueue))
                          ELSE retryDataset
    /\ aborted' = TRUE
    /\ abortedAt' = i
    /\ i' = i + 1
    /\ pc' = "loop"
    /\ result' = Null
    /\ UNCHANGED <<cfgVars, termIdx, seenPlaceIds, dataset, allResults, markedBy,
                   links, monitorVars, schedVars, started, scroll, events>>

BrowserNext == ScrollOn \/ Discover \/ LoopHead \/ ExtractDone \/ PushDone \/ FlushDone

\* ------------------------------------------ http variant: one job
\* results is a JavaScript array written by index: a function from the
\* indices assigned so far; its length is the largest index plus one
ArrayLength(a) ==
    IF DOMAIN a = {} THEN 0
    ELSE (CHOOSE m \in DOMAIN a : \A k \in DOMAIN a : k <= m) + 1

\* results[slot] = value
Store(a, slot, value) == (slot :> value) @@ a

\* results.filter(Boolean), in index order
RECURSIVE FilterFrom(_, _)
FilterFrom(a, k) ==
    IF k >= ArrayLength(a) THEN <<>>
    ELSE (IF k \in DOMAIN a /\ a[k].value # Null THEN <<a[k].value>> ELSE <<>>)
         \o FilterFrom(a, k + 1)

ValidResults(a) == FilterFrom(a, 0)

\* one worker per task, whatever the limit
WorkerPerTask(c, n) == n

\* Array.from({ length: Math.min(concurrency, tasks.length) }, worker)
WorkerCount(c, n) == ToLength(Min(c, n))

\* const i = index++
CursorAfter(idx) == idx + 1

\* the slot a worker writes when its task settles: the `i` it took
ResultSlot(w) == w.i

\* worker(): while (index < tasks.length) { const i = index++; tasks[i]() ... }
\* One turn of the loop, up to the task's first await (fetchPage).
WorkerTurn(idx, n) ==
    IF idx < n
    THEN [w |-> [pc |-> "fetch", i |-> idx, result |-> Null], index |-> CursorAfter(idx)]
    ELSE [w |-> [pc |-> "done", i |-> -1, result |-> Null], index |-> idx]

\* the workers are called one after the other; each runs to its first await
RECURSIVE Spawn(_, _, _, _)
Spawn(k, idx, n, acc) ==
    IF k = 0 THEN [workers |-> acc, index |-> idx]
    ELSE LET t == WorkerTurn(idx, n)
         IN  Spawn(k - 1, t.index, n, Append(acc, t.w))

\* history: reference t has been started once more
Starts(st, w) == IF w.pc = "fetch" THEN [st EXCEPT ![w.i + 1] = @ + 1] ELSE st

RECURSIVE StartsAll(_, _, _)
StartsAll(st, ws, k) ==
    IF k > Len(ws) THEN st ELSE StartsAll(Starts(st, ws[k]), ws, k + 1)

\* fetch of the result page, extractPlaceLinksFromHtml, tasks, runWithConcurrency
\* up to `await Promise.all(workers)`
Search ==
    /\ pc = "search"
    /\ LET html  == [abs |-> PageOf(world, termIdx), rel |-> <<>>, pids |-> <<>>]
           found == ExtractPlaceLinksFromHtml(html, input.maxPlaces)
           sp    == Spawn(WorkerCount(input.concurrency, Len(found)), 0, Len(found), <<>>)
       IN  /\ links' = found
           /\ IF Len(found) = 0
              THEN /\ pc' = "nextTerm"
                   /\ termIdx' = termIdx + 1
                   /\ UNCHANGED <<schedVars, started>>
              ELSE /\ results' = <<>>
                   /\ index' = sp.index
                   /\ workers' = sp.workers
                   /\ started' = StartsAll([k \in 1..Len(found) |-> 0], sp.workers, 1)
                   /\ pc' = "running"
                   /\ UNCHANGED termIdx
    /\ UNCHANGED <<cfgVars, outVars, monitorVars, loopVars, scroll, events>>

\* the gates of a task, in the order of the code
HttpGate(p, link, seen) ==
    IF ~HttpValidName(p) THEN "noName"
    ELSE IF IsDuplicate(seen, DedupeKey(p)) THEN "duplicate"
    ELSE IF FilteredOut(p) THEN "filtered"
    ELSE "accept"

\* the worker ends at the first rejected task
WorkerDies(idx, n) ==
    [w |-> [pc |-> "done", i |-> -1, result |-> Null], index |-> idx]

\* try { ... } catch (e) { results[i] = null; }  and the loop goes on
AfterThrow(idx, n) == WorkerTurn(idx, n)

\* results[i] = <what the task returned>; then the worker's turn t
SettleWith(w, value, t) ==
    /\ results' = Store(results, ResultSlot(workers[w]),
                        [task |-> workers[w].i, value |-> value])
    /\ index' = t.index
    /\ workers' = [workers EXCEPT ![w] = t.w]
    /\ started' = Starts(started, t.w)

Settle(w, value) == SettleWith(w, value, WorkerTurn(index, Len(links)))

\* fetchPage(link) of worker w's task settles; the task runs to
\* `await Actor.pushData(result)` or returns null
FetchDone(w) ==
    /\ pc = "running"
    /\ workers[w].pc = "fetch"
    /\ LET u    == links[workers[w].i + 1]
           p    == PlaceAt(world, u)
           gate == IF HitKind(world, u, "throw") THEN "throw"
                   ELSE HttpGate(p, u, seenPlaceIds)
       IN  /\ IF MarksKey(gate)
              THEN /\ seenPlaceIds' = MarkSeen(seenPlaceIds, DedupeKey(p))
                   /\ markedBy' = MarkOwner(markedBy, DedupeKey(p), <<termIdx, u>>)
              ELSE UNCHANGED <<seenPlaceIds, markedBy>>
           /\ IF gate = "accept"
              THEN /\ workers' = [workers EXCEPT ![w] =
                                    [pc |-> "push", i |-> @.i, result |-> MakeResult(p, termIdx)]]
                   /\ UNCHANGED <<index, results, started>>
              ELSE IF gate = "throw"
                   THEN SettleWith(w, Null, AfterThrow(index, Len(links)))
                   ELSE Settle(w, Null)
    /\ UNCHANGED <<cfgVars, pc, termIdx, dataset, allResults, retryDataset, links,
                   monitorVars, loopVars, scroll, events>>

\* Actor.pushData(result) of worker w's task settles: the task returns the
\* record, or null from its catch
TaskPushDone(w) ==
    /\ pc = "running"
    /\ workers[w].pc = "push"
    /\ IF HitKind(world, workers[w].result.google_maps_url, "pushFail")
       THEN /\ Settle(w, Null)
            /\ UNCHANGED dataset
       ELSE /\ dataset' = PushData(dataset, workers[w].result)
            /\ Settle(w, workers[w].result)
    /\ UNCHANGED <<cfgVars, pc, termIdx, seenPlaceIds, allResults, retryDataset,
                   markedBy, links, monitorVars, loopVars, scroll, events>>

AllSettled == \A w \in DOMAIN workers : workers[w].pc = "done"

\* Promise.all(workers) resolves; valid = results.filter(Boolean);
\* allResults.push(...valid)
RunDone ==
    /\ pc = "running"
    /\ AllSettled
    /\ allResults' = allResults \o ValidResults(results)
    /\ pc' = "nextTerm"
    /\ termIdx' = termIdx + 1
    /\ UNCHANGED <<cfgVars, seenPlaceIds, dataset, retryDataset, markedBy, links,
                   monitorVars, loopVars, schedVars, started, scroll, events>>

HttpNext ==
    \/ Search
    \/ \E w \in DOMAIN workers : FetchDone(w)
    \/ \E w \in DOMAIN workers : TaskPushDone(w)
    \/ RunDone

Next == Validate \/ NextTerm \/ BrowserNext \/ HttpNext

Spec == Init /\ [][Next]_vars

\* the runs whose liveness is checked: URL keys, no filter, a defect that
\* hits every place or every second one from the first on
FairConfigs ==
    { cfg \in Configs :
        /\ cfg.world.keyMode = "url"
        /\ ~cfg.input.onlyWithWebsite
        /\ cfg.world.termShift = 0
        /\ cfg.world.period <= 2 }

InitFair == InitWith(FairConfigs)

\* the run is a running program: a continuation that can run does run
SpecFair == InitFair /\ [][Next]_vars /\ WF_vars(Next)

\* ------------------------------------------------- link discovery alone
(* SpecScroll: the load-more loop and the link collection of each variant, *)
(* against a result feed that may show any item count, any scroll height   *)
(* and any end-of-results text at every round, and any list of anchors at  *)
(* the end.  scroll.variant: "monitor" (main.js 574-619), "hybrid"         *)
(* (main.js 1534-1562), "legacy" (main.js 885-930, 1006-1018), "http"      *)
(* (run.sh 133-158, no loop).                                              *)
ScrollVariants == {"monitor", "hybrid", "legacy", "http"}

RECURSIVE SeqsUpTo(_, _)
SeqsUpTo(S, n) ==
    IF n = 0 THEN {<<>>}
    ELSE LET shorter == SeqsUpTo(S, n - 1)
         IN  shorter \cup {Append(q, x) : q \in {r \in shorter : Len(r) = n - 1}, x \in S}

\* hrefs of the anchors of the final page; 0 is an anchor without href
Pages == SeqsUpTo(0..(MaxFeed - 1), MaxFeed)

IsInjective(q) == \A a, b \in DOMAIN q : q[a] = q[b] => a = b

\* what the regular expressions find in the result page of the http variant
Htmls ==
    [ abs  : SeqsUpTo(1..2, 2),
      rel  : SeqsUpTo(2..3, 2),
      pids : {q \in SeqsUpTo(4..5, 2) : IsInjective(q)} ]

\* no round has read the feed yet
NoFeed == [count |-> -1, endOfList |-> FALSE]

InitScroll ==
    /\ variant = "browser"
    /\ input = MakeInput(0, FALSE, 0, FALSE, 0)
    /\ world = MakeWorld(NoDefect, "url", 0, 1, 0)
    /\ pc = "off"
    /\ termIdx = 1
    /\ seenPlaceIds = InitialSeen
    /\ dataset = <<>>
    /\ allResults = <<>>
    /\ retryDataset = <<>>
    /\ links = <<>>
    /\ saved = 0
    /\ qualityWindow = <<>>
    /\ retryQueue = <<>>
    /\ i = 0
    /\ aborted = FALSE
    /\ result = Null
    /\ index = 0
    /\ results = <<>>
    /\ workers = <<>>
    /\ markedBy = <<>>
    /\ started = <<>>
    /\ abortedAt = -1
    /\ events = <<>>
    /\ \E v \in ScrollVariants, max \in 0..(MaxFeed + 1) :
          scroll = [ pc |-> IF v = "http" THEN "collect" ELSE "round",
                     variant |-> v, maxPlaces |-> max,
                     prev |-> 0, stalledCount |-> 0, rounds |-> 0,
                     exit |-> "none", links |-> <<>>,
                     feed |-> NoFeed, heights |-> <<0>> ]

\* history of the monitor's loop: what the last round read at its start
\* (feed) and the scroll heights the rounds read after scrolling, the newest
\* STALL_LIMIT + 1 of them, behind the initial `prev = 0` (heights)
Seen(sc, t, count, endOfList, newH) ==
    IF sc.variant # "monitor" THEN t
    ELSE [t EXCEPT !.feed = [count |-> count, endOfList |-> endOfList],
                   !.heights = IF t.exit \in {"count", "end"} THEN @
                               ELSE LET h == Append(@, newH)
                                    IN  SubSeq(h, Max(1, Len(h) - STALL_LIMIT), Len(h))]

ScrollRound ==
    /\ scroll.pc = "round"
    /\ \E count \in 0..MaxFeed, endOfList \in BOOLEAN, newH \in 0..MaxFeed :
          scroll' = Seen(scroll,
                         CASE scroll.variant = "monitor" ->
                                 MonitorTurn(scroll, count, endOfList, newH)
                           [] scroll.variant = "hybrid" -> HybridTurn(scroll, count, newH)
                           [] OTHER -> LegacyTurn(scroll, count, newH),
                         count, endOfList, newH)
    /\ UNCHANGED runVars

\* the links handed to the extraction stage
ScrollCollect ==
    /\ scroll.pc = "collect"
    /\ scroll.variant # "http"
    /\ \E page \in Pages :
          scroll' = [scroll EXCEPT
                        !.pc = "done",
                        !.links = IF scroll.variant = "legacy"
                                  THEN LegacyCollectLinks(page, scroll.maxPlaces)
                                  ELSE CollectLinks(page, scroll.maxPlaces)]
    /\ UNCHANGED runVars

HtmlCollect ==
    /\ scroll.pc = "collect"
    /\ scroll.variant = "http"
    /\ \E html \in Htmls :
          scroll' = [scroll EXCEPT
                        !.pc = "done",
                        !.links = ExtractPlaceLinksFromHtml(html, scroll.maxPlaces)]
    /\ UNCHANGED runVars

NextScroll == ScrollRound \/ ScrollCollect \/ HtmlCollect

SpecScroll == InitScroll /\ [][NextScroll]_vars

\* the loop is a running program: it takes its next turn
SpecScrollFair == SpecScroll /\ WF_vars(NextScroll)

\* ================================================================ claims
\* the identity key as the specification states it: primary stable id, else
\* secondary id, else the reference
IdentityKey(r) ==
    IF r.place_id # 0 THEN r.place_id
    ELSE IF r.cid # 0 THEN r.cid
    ELSE r.google_maps_url

\* the reference a pushed record came from
RefOf(r) == <<r.search_term, r.google_maps_url>>

\* the extraction of URL u fails
Throws(u) == HitKind(world, u, "throw")

\* tasks of runWithConcurrency started and not yet settled
TasksInFlight ==
    Cardinality({t \in DOMAIN started : started[t] > 0 /\ (t - 1) \notin DOMAIN results})

\* runWithConcurrency has resolved (and its caller has not yet gone on)
Resolved == variant = "http" /\ pc = "running" /\ AllSettled

\* C1: no two records of the main output stream resolve to the same identity
\* key, across all search terms of the run.
C1_UniqueKeys ==
    \A a, b \in DOMAIN dataset :
        a # b => IdentityKey(dataset[a]) # IdentityKey(dataset[b])

\* a reference of the second term resolved to the key of a record pushed for
\* the first term, and was processed
C1_Witness ==
    /\ termIdx = 2
    /\ pc = "loop"
    /\ i >= 1
    /\ ValidName(PlaceAt(world, links[i]))
    /\ \E k \in DOMAIN dataset :
          /\ dataset[k].search_term = 1
          /\ IdentityKey(dataset[k]) = IdentityKey(PlaceAt(world, links[i]))

\* C2: when runWithConcurrency resolves, the length of the result array is
\* the number of tasks, for every concurrency limit of the run input.
C2_ResultCount == Resolved => ArrayLength(results) = Len(links)

\* C3: when runWithConcurrency resolves every task has been started exactly
\* once, no task is ever started twice, and results[i] holds the outcome of
\* tasks[i].
C3_EachTaskOnce ==
    (variant = "http" /\ pc = "running") =>
        /\ \A t \in DOMAIN started : started[t] <= 1
        /\ \A k \in DOMAIN results : results[k].task = k
        /\ AllSettled => \A t \in DOMAIN started :
                            started[t] = 1 /\ (t - 1) \in DOMAIN results

\* C3 with at least one worker (concurrency >= 1): holds
C3_EachTaskOnceWithWorkers == input.concurrency >= 1 => C3_EachTaskOnce

\* C4: a reference whose extraction throws leaves no record and no key
\* behind and its result is null; it never raises the abort; the other
\* references are all attempted, each settling with its own outcome.
C4_FailureIsolated ==
    /\ \A k \in DOMAIN dataset : ~Throws(dataset[k].google_maps_url)
    /\ \A key \in DOMAIN markedBy : ~Throws(markedBy[key][2])
    /\ variant = "browser" =>
          /\ aborted => (abortedAt >= 0 /\ ~Throws(links[abortedAt + 1]))
          /\ (pc = "nextTerm" /\ ~aborted) => \A t \in DOMAIN started : started[t] = 1
    /\ (variant = "http" /\ pc = "running") =>
          /\ \A k \in DOMAIN results :
                /\ Throws(links[k + 1]) => results[k].value = Null
                /\ results[k].value # Null =>
                      results[k].value.google_maps_url = links[k + 1]
          /\ (AllSettled /\ \E t \in DOMAIN started : started[t] > 0 /\ Throws(links[t])) =>
                \A t \in DOMAIN started : started[t] = 1 /\ (t - 1) \in DOMAIN results

\* one task threw, another one returned its record
C4_Witness ==
    /\ Resolved
    /\ \E t \in DOMAIN started : started[t] = 1 /\ Throws(links[t])
    /\ \E k \in DOMAIN results : results[k].value # Null

\* C5: the number of tasks started and not yet settled never exceeds the
\* concurrency limit; min(C, N) workers are created, and a worker ends only
\* when the shared cursor is exhausted.
C5_ConcurrencyBounded ==
    (variant = "http" /\ pc = "running") =>
        /\ TasksInFlight <= input.concurrency
        /\ Len(workers) = Min(input.concurrency, Len(links))
        /\ \A w \in DOMAIN workers : workers[w].pc = "done" => index = Len(links)

\* the limit is reached with a task still to be pulled from the cursor
C5_Witness ==
    /\ variant = "http"
    /\ pc = "running"
    /\ input.concurrency < Len(links)
    /\ TasksInFlight = input.concurrency
    /\ DOMAIN results # {}
    /\ index = Len(links)

\* C6: once the monitor has returned 'ABORT' no reference with a higher
\* index is started in that job, and the reference whose record raised the
\* abort was processed to the end (its record is the last one pushed).
C6_CooperativeCancel ==
    (variant = "browser" /\ aborted) =>
        /\ abortedAt \in 0..(Len(links) - 1)
        /\ \A t \in DOMAIN started :
              started[t] = IF t <= abortedAt + 1 THEN 1 ELSE 0
        /\ pc \notin {"extracting", "pushing", "flushing"}
        /\ Len(dataset) > 0
        /\ dataset[Len(dataset)].google_maps_url = links[abortedAt + 1]

\* a job ended by the abort with references never dispatched
C6_Witness ==
    /\ variant = "browser"
    /\ aborted
    /\ pc = "nextTerm"
    /\ abortedAt + 1 < Len(links)

\* C7: link discovery never returns more than targetCount references.
C7_AtMostTarget ==
    scroll.pc = "done" => Len(scroll.links) <= scroll.maxPlaces

\* C8: the load-more loop terminates, whatever the page does.
C8_ScrollTerminates == <>(scroll.pc \in {"collect", "done"})

\* C9: a pushed record is always the first one that resolved to its key: the
\* reference that marked the key seen, whatever branch of the precedence gave
\* the key and whatever term it came from.
C9_FirstMarkerOnly ==
    /\ DOMAIN markedBy = seenPlaceIds
    /\ \A k \in DOMAIN dataset :
          /\ IdentityKey(dataset[k]) \in DOMAIN markedBy
          /\ markedBy[IdentityKey(dataset[k])] = RefOf(dataset[k])

\* three references resolving to one key through the three branches were
\* processed and one record was pushed
C9_Witness ==
    /\ world.keyMode = "mixed"
    /\ world.defect = "none"
    /\ pc = "loop"
    /\ i >= 3
    /\ Len(dataset) = 1
    /\ dataset[1].place_id # 0
    /\ PlaceAt(world, links[2]).place_id = 0
    /\ PlaceAt(world, links[2]).cid = IdentityKey(dataset[1])
    /\ PlaceAt(world, links[3]).cid = 0
    /\ PlaceAt(world, links[3]).google_maps_url = IdentityKey(dataset[1])

\* C10: no step removes a key from seenPlaceIds, the step to the next search
\* term included.
C10_SeenOnlyGrows == [][seenPlaceIds \subseteq seenPlaceIds']_vars

\* a key marked during the first job is still seen during the second
C10_Witness ==
    /\ termIdx = 2
    /\ pc \in {"loop", "running"}
    /\ \E key \in seenPlaceIds : key \in DOMAIN markedBy /\ markedBy[key][1] = 1

\* ------------------------------------------------------ quality monitor
\* the job whose per-job state (saved, window, retry queue) the state holds
JobIdx == IF pc \in {"nextTerm", "done"} THEN termIdx - 1 ELSE termIdx

\* the records accepted by that job, in acceptance order
JobRecords == SelectSeq(dataset, LAMBDA r : r.search_term = JobIdx)

\* C11: the quality window is the min(saved, W) most recently accepted
\* records of the current job, in acceptance order (W = 20).
C11_WindowIsRecentSuffix ==
    variant = "browser" =>
        LET n == Len(JobRecords)
            k == Min(n, QUALITY_WINDOW_SIZE)
        IN  /\ saved = n
            /\ Len(qualityWindow) = k
            /\ qualityWindow = SubSeq(JobRecords, n - k + 1, n)

\* a record was accepted into a full window: the oldest one is gone
C11_Witness ==
    /\ variant = "browser"
    /\ saved > QUALITY_WINDOW_SIZE
    /\ Len(qualityWindow) = QUALITY_WINDOW_SIZE
    /\ qualityWindow[1] = JobRecords[saved - QUALITY_WINDOW_SIZE + 1]
    /\ qualityWindow[1] # JobRecords[1]

\* the checkpoints evaluated so far by the current job
JobCheckpoints ==
    SelectSeq(events, LAMBDA e : e.kind = "checkpoint" /\ e.term = JobIdx)

\* C12: a checkpoint is evaluated exactly when the accepted-record count
\* reaches a multiple of M = 10, and only on a full window (W = 20 records).
C12_CheckpointOnFullWindow ==
    variant = "browser" =>
        /\ \A k \in DOMAIN events :
              events[k].kind = "checkpoint" =>
                  /\ events[k].saved % QUALITY_CHECK_EVERY = 0
                  /\ events[k].size = QUALITY_WINDOW_SIZE
        /\ \A m \in QUALITY_WINDOW_SIZE..saved :
              m % QUALITY_CHECK_EVERY = 0 =>
                  \E k \in DOMAIN JobCheckpoints : JobCheckpoints[k].saved = m

\* C12 as the code has it: a checkpoint at every multiple of M, on a window
\* of min(saved, W) records: holds
C12_CheckpointEveryTen ==
    variant = "browser" =>
        /\ \A k \in DOMAIN events :
              events[k].kind = "checkpoint" =>
                  /\ events[k].saved % QUALITY_CHECK_EVERY = 0
                  /\ events[k].size = Min(events[k].saved, QUALITY_WINDOW_SIZE)
        /\ \A m \in 1..saved :
              m % QUALITY_CHECK_EVERY = 0 =>
                  \E k \in DOMAIN JobCheckpoints : JobCheckpoints[k].saved = m

\* the window a checkpoint was evaluated on
WindowAt(e) ==
    LET recs == SelectSeq(dataset, LAMBDA r : r.search_term = e.term)
    IN  SubSeq(recs, e.saved - e.size + 1, e.saved)

\* number of records of the window with a contact channel / with field f
WithContact(window) ==
    Cardinality({k \in DOMAIN window : window[k].phone \/ window[k].whatsapp})

WithField(window, f) == Cardinality({k \in DOMAIN window : window[k][f]})

\* the fill ratio filled / n is strictly below floor percent
RatioBelow(filled, n, floor) == filled * 100 < floor * n

\* some critical field (contact, rating) is below its floor
CriticalBreach(window) ==
    \/ RatioBelow(WithContact(window), Len(window), 95)
    \/ RatioBelow(WithField(window, "rating"), Len(window), 95)

\* some advisory field (reviews_count, full_address, phone alone) is below
\* its floor
AdvisoryBreach(window) ==
    \/ RatioBelow(WithField(window, "reviews_count"), Len(window), 85)
    \/ RatioBelow(WithField(window, "full_address"), Len(window), 95)
    \/ RatioBelow(WithField(window, "phone"), Len(window), 95)

JobFlushes == SelectSeq(events, LAMBDA e : e.kind = "flush" /\ e.term = JobIdx)

\* C14: on a quality abort the flush of the retry queue is issued and
\* awaited before the abort flag of the job is set: while the flush is awaited
\* the flag is still down, and whenever the flag is up a flush of the job's
\* queue has been issued, after the checkpoint that decided the abort.
C14_FlushBeforeAbort ==
    variant = "browser" =>
        /\ pc = "flushing" =>
              /\ ~aborted
              /\ Len(JobFlushes) = 1
              /\ events[Len(events)] = JobFlushes[1]
        /\ (aborted /\ pc # "discover") =>
              /\ Len(JobFlushes) = 1
              /\ JobFlushes[1].size = Len(retryQueue)
              /\ \E k \in DOMAIN events :
                    /\ k < Len(events)
                    /\ events[k].kind = "checkpoint"
                    /\ events[k].decision = "abort"
                    /\ events[k].saved = JobFlushes[1].saved
                    /\ events[k + 1] = JobFlushes[1]

\* an aborted job whose flush reached the retry_queue channel
C14_Witness ==
    /\ variant = "browser"
    /\ aborted
    /\ pc = "loop"
    /\ Len(JobFlushes) = 1
    /\ Len(retryDataset) > 0
    /\ Len(retryDataset[Len(retryDataset)]) = JobFlushes[1].size

\* the records the monitor flags: no contact channel, or a quality field
\* other than phone missing
Flagged(r) ==
    (~r.phone /\ ~r.whatsapp) \/ ~r.rating \/ ~r.reviews_count \/ ~r.full_address

\* C15: a flush issued after N entries were appended emits exactly those N
\* entries and leaves the buffer empty (so that a repeated flush would emit
\* nothing); no flush is issued on an empty buffer.
C15_FlushEmitsAndClears ==
    variant = "browser" =>
        /\ \A k \in DOMAIN events : events[k].kind = "flush" => events[k].size > 0
        /\ pc = "flushing" => JobFlushes[1].size = Len(retryQueue)
        /\ \A b \in DOMAIN retryDataset : Len(retryDataset[b]) > 0
        /\ (Len(JobFlushes) > 0 /\ pc \notin {"flushing", "discover"}) =>
              retryQueue = <<>>

\* C15 without the clearing: every flush emits the whole buffer, one entry
\* per flagged record of the job, and none is issued on an empty buffer: holds
C15_FlushEmitsAll ==
    variant = "browser" =>
        /\ \A k \in DOMAIN events : events[k].kind = "flush" => events[k].size > 0
        /\ Len(retryQueue) = Len(SelectSeq(JobRecords, Flagged))
        /\ \A k \in DOMAIN retryQueue : retryQueue[k].record \in Range(JobRecords)
        /\ pc = "flushing" => JobFlushes[1].size = Len(retryQueue)
        /\ \A b \in DOMAIN retryDataset : Len(retryDataset[b]) > 0

\* the current job is over (completed or aborted)
JobOver == pc \in {"nextTerm", "done"} /\ JobIdx >= 1

\* C16: whenever a job finishes, aborted or not, with flagged entries
\* buffered, a flush of those entries to the retry_queue channel was issued.
C16_FlushedAtJobEnd ==
    (variant = "browser" /\ JobOver /\ Len(retryQueue) > 0) =>
        /\ Len(JobFlushes) = 1
        /\ JobFlushes[1].size = Len(retryQueue)

\* C16 for the aborted jobs alone: holds
C16_FlushedAtAbort ==
    (variant = "browser" /\ JobOver /\ aborted) =>
        /\ Len(JobFlushes) = 1
        /\ JobFlushes[1].size = Len(retryQueue)

\* the record of URL u has every field and a valid name
FullyPopulated(p) ==
    /\ p.name = "Place" /\ p.website /\ p.phone /\ p.rating
    /\ p.reviews_count /\ p.full_address

\* first job over; discovery gave targetCount references; one extraction
\* threw and the others gave fully populated records with distinct keys
ScenarioA ==
    /\ variant = "browser"
    /\ JobOver /\ JobIdx = 1
    /\ Len(links) > 0
    /\ Len(links) = input.maxPlaces
    /\ Cardinality({k \in DOMAIN links : Throws(links[k])}) = 1
    /\ \A k \in DOMAIN links :
          ~Throws(links[k]) => FullyPopulated(PlaceAt(world, links[k]))
    /\ \A a, b \in DOMAIN links :
          (a # b /\ ~Throws(links[a]) /\ ~Throws(links[b])) =>
              IdentityKey(PlaceAt(world, links[a])) # IdentityKey(PlaceAt(world, links[b]))

\* C17: in Scenario A the main sink receives one record per reference but
\* the failed one (4 of 5), the retry queue is empty, no checkpoint aborts
\* and the job completes with every reference attempted.
C17_ScenarioA ==
    ScenarioA =>
        /\ Len(dataset) = Len(links) - 1
        /\ \A k \in DOMAIN links :
              ~Throws(links[k]) =>
                  \E d \in DOMAIN dataset : dataset[d].google_maps_url = links[k]
        /\ retryQueue = <<>>
        /\ retryDataset = <<>>
        /\ ~aborted
        /\ \A k \in DOMAIN events : events[k].decision # "abort"
        /\ \A t \in DOMAIN started : started[t] = 1

\* Scenario A with five references: four records in the sink
C17_Witness ==
    /\ ScenarioA
    /\ Len(links) = 5
    /\ Len(dataset) = 4
    /\ ~Throws(links[1])

\* first job; twenty references with distinct keys; every 5th record lacks
\* both phone and whatsapp, every other field of every record is filled
ScenarioB ==
    /\ variant = "browser"
    /\ JobIdx = 1
    /\ Len(links) = 20
    /\ \A k \in DOMAIN links :
          LET p == PlaceAt(world, links[k])
          IN  /\ ~Throws(links[k])
              /\ p.name = "Place" /\ p.website /\ p.rating
              /\ p.reviews_count /\ p.full_address
              /\ (k % 5 = 0) => (~p.phone /\ ~p.whatsapp)
              /\ (k % 5 # 0) => p.phone
    /\ \A a, b \in DOMAIN links :
          a # b => IdentityKey(PlaceAt(world, links[a])) # IdentityKey(PlaceAt(world, links[b]))

\* C18: in Scenario B no checkpoint aborts before the one after 20 accepted
\* records, that one aborts, the flush then emits exactly the 4 flagged
\* entries, and no reference is started after the abort.
C18_ScenarioB ==
    ScenarioB =>
        /\ \A k \in DOMAIN events :
              events[k].kind = "checkpoint" =>
                  (events[k].decision = "abort" <=> events[k].saved = 20)
        /\ \A k \in DOMAIN events : events[k].kind = "flush" => events[k].size = 4
        /\ aborted => abortedAt = 19
        /\ JobOver =>
              /\ aborted
              /\ Len(JobFlushes) = 1
              /\ Len(dataset) = 20

\* a job starts with an empty window, an empty retry queue, saved = 0, and
\* its extraction loop with the abort flag down
JobStartsClean ==
    /\ pc \in {"discover", "search"} =>
          (saved = 0 /\ qualityWindow = <<>> /\ retryQueue = <<>>)
    /\ (pc = "loop" /\ i = 0) => ~aborted

\* every search term of the input has been processed
AllTermsDone == pc = "done" /\ termIdx = input.nTerms + 1

\* C19: however a job ends the run goes on to the next term, every job
\* starts clean, and eventually every search term has been processed.
C19_TermIsolation ==
    /\ []JobStartsClean
    /\ InputValid(input) => <>AllTermsDone

\* C19 but for a scroll loop that never ends: every job starts clean, and
\* the run processes every term unless it stays in link discovery for ever:
\* holds
C19_IsolatedUnlessScrollHangs ==
    /\ []JobStartsClean
    /\ InputValid(input) => (<>AllTermsDone \/ <>[](pc = "discover"))

\* C20: with searchTerms missing or empty, or location missing, the run ends
\* in the error state, no record reaches any output channel and no job is
\* started; the error state is entered for no other input.
C20_MalformedInputFatal ==
    /\ (input.nTerms = 0 \/ ~input.hasLocation) =>
          /\ pc \in {"validate", "fatal"}
          /\ dataset = <<>> /\ allResults = <<>> /\ retryDataset = <<>>
          /\ seenPlaceIds = {} /\ events = <<>>
          /\ termIdx = 1 /\ links = <<>> /\ started = <<>> /\ workers = <<>>
    /\ pc = "fatal" => (input.nTerms = 0 \/ ~input.hasLocation)

\* a run with search terms and no location has ended in the error state
C20_Witness ==
    /\ pc = "fatal"
    /\ input.nTerms > 0
    /\ ~input.hasLocation
    /\ dataset = <<>>

\* ------------------------------------------------------------ C21..C30
\* the program counter is inside the extraction loop of a browser job, or
\* just behind it
InJob == pc \in {"loop", "extracting", "pushing", "flushing"} \/ JobOver

\* reference u of job t went through every gate and its push did not fail
Accepted(t, u) ==
    LET p == PlaceAt(world, u)
    IN  /\ ~Throws(u)
        /\ ValidName(p)
        /\ DedupeKey(p) \in DOMAIN markedBy
        /\ markedBy[DedupeKey(p)] = <<t, u>>
        /\ ~FilteredOut(p)
        /\ ~HitKind(world, u, "pushFail")

\* C21: accepted records are streamed one at a time: in the browser variant
\* the push of the record of reference i has completed before the extraction
\* of reference i+1 starts, so at every point of the loop, an abort or a
\* failure included, every record accepted so far is in the main output.
C21_StreamedOneByOne ==
    (variant = "browser" /\ InJob) =>
        /\ \A t \in 1..Min(i, Len(links)) :
              Accepted(JobIdx, links[t]) =>
                  \E d \in DOMAIN dataset : RefOf(dataset[d]) = <<JobIdx, links[t]>>
        /\ pc \in {"loop", "extracting"} => result = Null
        /\ saved = Len(JobRecords)

\* the job has aborted with references left, and the ten records accepted
\* before the abort are all in the main output
C21_Witness ==
    /\ variant = "browser"
    /\ pc = "loop"
    /\ aborted
    /\ i < Len(links)
    /\ i >= QUALITY_CHECK_EVERY
    /\ \A t \in 1..i : Accepted(JobIdx, links[t])
    /\ Len(JobRecords) = i

\* C22: a record reaches the main output, the window, the retry queue and
\* the saved count only after passing every gate: every pushed record has a
\* valid name (non-empty and not 'Google Maps'), was the first of its key,
\* and has a website when onlyWithWebsite is set; a rejected record reaches
\* neither saved, the window nor the retry queue.
C22_EveryGatePassed ==
    /\ \A d \in DOMAIN dataset :
          /\ dataset[d].name # ""
          /\ dataset[d].name # "Google Maps"
          /\ markedBy[IdentityKey(dataset[d])] = RefOf(dataset[d])
          /\ input.onlyWithWebsite => dataset[d].website
    /\ \A k \in DOMAIN qualityWindow : qualityWindow[k] \in Range(dataset)
    /\ \A k \in DOMAIN retryQueue : retryQueue[k].record \in Range(dataset)
    /\ (variant = "browser" /\ InJob) => saved = Len(JobRecords)

\* the browser variant's part of C22 (holds): its name gate refuses the
\* generic title
C22_BrowserGates == variant = "browser" => C22_EveryGatePassed

\* number of records of the window whose rating, if present, has its count
WithPairedRating(window) ==
    Cardinality({k \in DOMAIN window : window[k].rating => window[k].reviews_count})

\* C23: rating consistency is a critical composite: a checkpoint on a window
\* where the fraction of records whose rating has its paired count is below
\* the floor (95%) decides ABORT, even when the plain rating fill ratio is at
\* or above its floor.
C23_RatingPairCritical ==
    variant = "browser" =>
        \A k \in DOMAIN events :
            (/\ events[k].kind = "checkpoint"
             /\ RatioBelow(WithPairedRating(WindowAt(events[k])),
                           Len(WindowAt(events[k])), THRESHOLD_rating))
                => events[k].decision = "abort"

\* what the code does at such a checkpoint (holds): the composite is not
\* looked at; without a contact or a rating-fill breach the extraction goes
\* on, the missing counts being at most an advisory breach
C23_RatingPairOnlyWarns ==
    variant = "browser" =>
        \A k \in DOMAIN events :
            (/\ events[k].kind = "checkpoint"
             /\ RatioBelow(WithPairedRating(WindowAt(events[k])),
                           Len(WindowAt(events[k])), THRESHOLD_rating)
             /\ ~CriticalBreach(WindowAt(events[k])))
                => events[k].decision # "abort"

\* the number of newest readings in a row that equal the reading before them
RECURSIVE FlatRounds(_)
FlatRounds(h) ==
    IF Len(h) < 2 \/ h[Len(h)] # h[Len(h) - 1] THEN 0
    ELSE 1 + FlatRounds(SubSeq(h, 1, Len(h) - 1))

\* C24: the discovery loop of the monitor stops on stall only after K = 3
\* consecutive rounds in which the scroll height did not change; a round in
\* which it changed resets the stall counter to 0; with fewer than 3 such
\* rounds in a row the loop goes on; otherwise it stops exactly when, at the
\* start of a round, the item count has reached the target or the
\* end-of-results text is present.
C24_StallAfterThreeRounds ==
    scroll.variant = "monitor" =>
        LET reached == scroll.feed.count >= scroll.maxPlaces
            ended   == scroll.feed.endOfList
        IN  /\ scroll.stalledCount = FlatRounds(scroll.heights)
            /\ scroll.exit = "stall" <=> FlatRounds(scroll.heights) = 3
            /\ scroll.exit = "stall" => ~reached /\ ~ended
            /\ scroll.exit = "count" <=> (scroll.pc # "round" /\ reached)
            /\ scroll.exit = "end" <=> (scroll.pc # "round" /\ ~reached /\ ended)
            /\ scroll.pc = "round" =>
                  /\ scroll.exit = "none"
                  /\ FlatRounds(scroll.heights) < 3
                  /\ scroll.feed = NoFeed \/ (~reached /\ ~ended)

\* the loop has stopped on stall after the height had changed at least once
C24_Witness ==
    /\ scroll.variant = "monitor"
    /\ scroll.exit = "stall"
    /\ scroll.heights[1] # 0
    /\ scroll.links # <<>>

\* the counter was reset: two flat rounds, a round with growth, and the loop
\* still runs
C24_ResetSeen ==
    /\ scroll.variant = "monitor"
    /\ scroll.pc = "round"
    /\ Len(scroll.heights) = 4
    /\ scroll.heights[1] = scroll.heights[2]
    /\ scroll.heights[2] = scroll.heights[3]
    /\ scroll.heights[3] # scroll.heights[4]

\* the report r has a line for field f stating pct as observed and floor as
\* required
States(r, f, pct, floor) ==
    \E k \in DOMAIN r : r[k].field = f /\ r[k].pct = pct /\ r[k].minimum = floor

\* the floors the abort decision and the alerts compare against
FloorOf(f) ==
    CASE f = "reviews_count" -> 85
      [] OTHER -> 95

\* C25: at a checkpoint that aborts, the report states for each breached
\* field the observed and the required fill ratio, the required one being
\* the floor the decision compared against: for the contact composite as
\* well as for the per-field thresholds.
C25_ReportStatesFloors ==
    variant = "browser" =>
        \A k \in DOMAIN events :
            (events[k].kind = "checkpoint" /\ events[k].decision = "abort") =>
                LET w == WindowAt(events[k])
                    n == Len(w)
                IN  /\ RatioBelow(WithContact(w), n, FloorOf("contato")) =>
                          States(events[k].report, "contato",
                                 RoundPct(WithContact(w), n), FloorOf("contato"))
                    /\ \A f \in {"phone", "rating", "reviews_count", "full_address"} :
                          RatioBelow(WithField(w, f), n, FloorOf(f)) =>
                              States(events[k].report, f,
                                     RoundPct(WithField(w, f), n), FloorOf(f))

\* the per-field lines of the report do state the floor compared against
\* (holds); the line of the contact composite states 90 where the decision
\* compares with 95
C25_FieldLinesMatch ==
    variant = "browser" =>
        \A k \in DOMAIN events :
            events[k].kind = "checkpoint" =>
                LET w == WindowAt(events[k])
                    n == Len(w)
                IN  /\ \A f \in {"phone", "rating", "reviews_count", "full_address"} :
                          RatioBelow(WithField(w, f), n, FloorOf(f)) =>
                              States(events[k].report, f,
                                     RoundPct(WithField(w, f), n), FloorOf(f))
                    /\ RatioBelow(WithContact(w), n, FloorOf("contato")) =>
                          States(events[k].report, "contato",
                                 RoundPct(WithContact(w), n), CONTACT_REPORTED_MIN)

\* references of the job whose extraction or onPlaceReady call has started
\* and has not yet returned to the loop
InProgress == {t \in DOMAIN started : started[t] > 0 /\ t > i}

Pushing == {w \in DOMAIN workers : workers[w].pc = "push"}

\* C27: in the HTTP variant the membership test and the mark-seen step of a
\* task are not interleaved with another task's: under every interleaving,
\* of the tasks that resolve to one key at most one gets past the test, so
\* the records pushed and the records awaiting their push have pairwise
\* different keys, each of them in the seen set.
C27_TestAndMarkAtomic ==
    variant = "http" =>
        /\ \A a, b \in Pushing :
              a # b => IdentityKey(workers[a].result) # IdentityKey(workers[b].result)
        /\ \A a \in Pushing, d \in DOMAIN dataset :
              IdentityKey(workers[a].result) # IdentityKey(dataset[d])
        /\ \A a \in Pushing : IdentityKey(workers[a].result) \in seenPlaceIds
        /\ \A c, d \in DOMAIN dataset :
              c # d => IdentityKey(dataset[c]) # IdentityKey(dataset[d])
        /\ \A d \in DOMAIN dataset : IdentityKey(dataset[d]) \in seenPlaceIds

\* two tasks started together resolve to one key: one awaits its push, the
\* other has returned null as a duplicate in the meantime
C27_Witness ==
    /\ variant = "http"
    /\ pc = "running"
    /\ \E a \in Pushing, k \in DOMAIN results :
          LET p == PlaceAt(world, links[results[k].task + 1])
          IN  /\ results[k].task # workers[a].i
              /\ results[k].task < Len(workers)
              /\ workers[a].i < Len(workers)
              /\ results[k].value = Null
              /\ ~Throws(links[results[k].task + 1])
              /\ HttpValidName(p)
              /\ DedupeKey(p) = IdentityKey(workers[a].result)

\* the references of the current job that have been through the gates
Handled ==
    IF variant = "browser"
    THEN {links[t] : t \in 1..Min(i, Len(links))}
    ELSE {links[results[k].task + 1] : k \in DOMAIN results}

\* place p got as far as the filter and was turned away there
TurnedAway(p) == input.onlyWithWebsite /\ ~p.website

\* C28: the key is marked seen before the filter gate: a reference with a
\* valid name whose extraction succeeded leaves its key in the seen set even
\* if onlyWithWebsite rejects it, and when the first reference of a key was
\* rejected by the filter no record with that key is ever pushed, whether or
\* not a later reference of the key has a website.
C28_FilteredKeyStaysSeen ==
    (pc \in {"loop", "extracting", "pushing", "flushing", "running"} \/ JobOver) =>
        /\ \A u \in Handled :
              (~Throws(u) /\ ValidName(PlaceAt(world, u)))
                  => DedupeKey(PlaceAt(world, u)) \in seenPlaceIds
        /\ \A key \in seenPlaceIds :
              TurnedAway(PlaceAt(world, markedBy[key][2])) =>
                  \A d \in DOMAIN dataset : IdentityKey(dataset[d]) # key

\* a reference without website was filtered, and a later reference of the
\* same key that has a website was handled and produced no record
C28_Witness ==
    /\ input.onlyWithWebsite
    /\ pc \in {"loop", "running"}
    /\ \E u, v \in Handled :
          /\ u # v
          /\ ~PlaceAt(world, u).website
          /\ PlaceAt(world, v).website
          /\ ValidName(PlaceAt(world, v))
          /\ DedupeKey(PlaceAt(world, u)) = DedupeKey(PlaceAt(world, v))
          /\ markedBy[DedupeKey(PlaceAt(world, u))] = <<termIdx, u>>
          /\ \A d \in DOMAIN dataset :
                IdentityKey(dataset[d]) # DedupeKey(PlaceAt(world, u))

\* reference u of job t passed every gate and its push threw
PushFailed(t, u) ==
    LET p == PlaceAt(world, u)
    IN  /\ ~Throws(u)
        /\ ValidName(p)
        /\ DedupeKey(p) \in DOMAIN markedBy
        /\ markedBy[DedupeKey(p)] = <<t, u>>
        /\ ~FilteredOut(p)
        /\ HitKind(world, u, "pushFail")

\* C29: when the push of an accepted record throws, the failure is an
\* ordinary unit failure: the record is in neither the main output, the
\* window nor the retry queue and is not counted in saved, its key stays in
\* the seen set, and the job goes on with the next reference (a job that
\* never aborted has started every reference by its end).
C29_PushFailureIsUnitFailure ==
    (variant = "browser" /\ InJob) =>
        /\ \A u \in Handled :
              PushFailed(JobIdx, u) =>
                  /\ DedupeKey(PlaceAt(world, u)) \in seenPlaceIds
                  /\ \A d \in DOMAIN dataset : RefOf(dataset[d]) # <<JobIdx, u>>
                  /\ \A k \in DOMAIN qualityWindow :
                        RefOf(qualityWindow[k]) # <<JobIdx, u>>
                  /\ \A k \in DOMAIN retryQueue :
                        RefOf(retryQueue[k].record) # <<JobIdx, u>>
        /\ pc # "flushing" => saved = Cardinality({u \in Handled : Accepted(JobIdx, u)})
        /\ (JobOver /\ ~aborted) =>
              /\ i = Len(links)
              /\ \A t \in DOMAIN started : started[t] = 1

\* a push has thrown and the reference after it was accepted and pushed
C29_Witness ==
    /\ variant = "browser"
    /\ pc = "loop"
    /\ i >= 2
    /\ PushFailed(termIdx, links[i - 1])
    /\ Accepted(termIdx, links[i])
    /\ \E d \in DOMAIN dataset : RefOf(dataset[d]) = <<termIdx, links[i]>>
    /\ saved < i

\* the records of the retry queue, in order
QueuedRecords == [k \in DOMAIN retryQueue |-> retryQueue[k].record]

\* the record has no phone and no whatsapp, or a rating without its count,
\* or lacks rating, reviews_count or full_address
NeedsRetry(r) ==
    \/ ~r.phone /\ ~r.whatsapp
    \/ r.rating /\ ~r.reviews_count
    \/ ~r.rating
    \/ ~r.reviews_count
    \/ ~r.full_address

\* C30: every entry of a job's retry queue is an annotated copy of a record
\* already pushed to the main output by that job; no two entries have the
\* same identity key; the queue is never longer than saved; and an accepted
\* record is appended exactly when it has no phone and no whatsapp, or has a
\* rating without reviews_count, or lacks rating, reviews_count or
\* full_address.
C30_RetryQueueInvariants ==
    variant = "browser" =>
        /\ \A k \in DOMAIN retryQueue :
              /\ retryQueue[k].record \in Range(JobRecords)
              /\ DOMAIN retryQueue[k] = {"record", "_critical_issues", "_warning_issues"}
              /\ Len(retryQueue[k]._critical_issues) + Len(retryQueue[k]._warning_issues) > 0
        /\ \A a, b \in DOMAIN retryQueue :
              a # b => IdentityKey(retryQueue[a].record) # IdentityKey(retryQueue[b].record)
        /\ Len(retryQueue) <= saved
        /\ QueuedRecords = SelectSeq(JobRecords, NeedsRetry)

\* the queue of a job holds some of the records accepted so far, not all
C30_Witness ==
    /\ variant = "browser"
    /\ Len(retryQueue) >= 2
    /\ Len(retryQueue) < saved
    /\ \E k \in DOMAIN JobRecords : ~NeedsRetry(JobRecords[k])

====
